---- MODULE Spec2Model ----
\* The waveshare 7in5 V2 e-Paper driver (driver.go) as a state machine.
\*
\* The driver is single-threaded and blocking: a caller invokes one operation
\* at a time (the Call actions), the operation executes its statements one by
\* one (the Do actions), and then returns (Return).  todo is the rest of the
\* running operation's statement list, log the I/O it has performed so far
\* (cleared at each call).  The panel's busy line is the environment: every
\* poll reads an arbitrary level.
\*
\* The panel constants EPD_WIDTH, EPD_HEIGHT and PIXEL_SIZE and the helpers
\* sendCommand, sendData, sendCommandWithData, wait, waitUntilIdle and isBlack
\* are used by driver.go but defined in a file that is not part of src/; they
\* are modelled from spec.md (sections 3, 4.1, 4.2, 4.4).  The geometry is
\* fixed per behaviour and chosen in the initial state from a bounded family
\* of panels.
EXTENDS Integers, Sequences, FiniteSets

VARIABLES
    EPD_WIDTH,    \* panel width in pixels (build constant, never changes)
    EPD_HEIGHT,   \* panel height in pixels (build constant, never changes)
    PIXEL_SIZE,   \* pixels per packed byte, G (build constant, never changes)
    epd,          \* the *Epd that New returned, or Nil
    gpioOpen,     \* rpio.Open succeeded and rpio.Close not yet run
    spiOpen,      \* rpio.SpiBegin succeeded and rpio.SpiEnd not yet run
    pinMode,      \* direction configured for each pin
    pinLevel,     \* level the driver last wrote to each pin
    cur,          \* the operation in progress, "idle" or "crashed"
    last,         \* the operation most recently called
    arg,          \* the image and threshold of the running packer call, or Nil
    todo,         \* statements the running operation still has to execute
    log,          \* I/O events of the current (or last) call, in order
    polls,        \* busy polls that read "busy" in the current busy-wait
    ret,          \* what the last completed call returned
    buffer,       \* DisplayImage's local: the packed buffer
    img,          \* Clear's local: the scanline
    life,         \* lifecycle state of spec.md 4.3 (history variable)
    calledIn,     \* lifecycle state in which the last call was made (history)
    closeCalled,  \* a Close call has started (history variable)
    input,        \* the image and threshold a packer behaviour is about, or Nil
    first         \* what the first direct getBuffer call returned, or Nil (history)

vars == <<EPD_WIDTH, EPD_HEIGHT, PIXEL_SIZE, epd, gpioOpen, spiOpen, pinMode,
          pinLevel, cur, last, arg, todo, log, polls, ret, buffer, img, life,
          calledIn, closeCalled, input, first>>

geometry == <<EPD_WIDTH, EPD_HEIGHT, PIXEL_SIZE>>
hardware == <<gpioOpen, spiOpen, pinMode, pinLevel>>
locals == <<buffer, img>>

-----------------------------------------------------------------------------
(* Bounds of the model *)

\* widest panel, in packed bytes per scanline
MaxRowBytes == 2
\* tallest panel, in scanlines
MaxHeight == 2
\* busy polls recorded per busy-wait; later busy polls still happen, unrecorded
MaxPolls == 2

-----------------------------------------------------------------------------
(* Values *)

Nil == [nil |-> TRUE]
High == "High"
Low == "Low"
Pins == {25, 8, 17, 24}

RECURSIVE Replicate(_, _)
Replicate(n, v) == IF n <= 0 THEN <<>> ELSE <<v>> \o Replicate(n - 1, v)

RECURSIVE Pow2(_)
Pow2(n) == IF n <= 0 THEN 1 ELSE 2 * Pow2(n - 1)

\* Go's >> on an untyped constant that ends up in a byte
Shr(a, n) == a \div Pow2(n)

\* Go's | on two bytes
RECURSIVE BitOr(_, _)
BitOr(a, b) ==
    IF a = 0 THEN b
    ELSE IF b = 0 THEN a
    ELSE 2 * BitOr(a \div 2, b \div 2) + (IF a % 2 = 1 \/ b % 2 = 1 THEN 1 ELSE 0)

-----------------------------------------------------------------------------
(* Statements *)

PinWrite(pin, v) == [i |-> "pinw", pin |-> pin, v |-> v]
SpiTransmit(bytes) == [i |-> "spi", bytes |-> bytes]
PinMode(pin, dir) == [i |-> "mode", pin |-> pin, dir |-> dir]

\* wait(ms): blocks for at least ms milliseconds
wait(ms) == << [i |-> "wait", ms |-> ms] >>

\* waitUntilIdle: poll the busy line, with a short delay between polls, until
\* it reads not busy
waitUntilIdle(e) == << [i |-> "poll", pin |-> e.busy] >>

\* sendCommand: one byte, chip-select asserted, data/command line low
sendCommand(e, c) ==
    << PinWrite(e.cs, Low), PinWrite(e.dc, Low), SpiTransmit(<<c>>),
       PinWrite(e.cs, High) >>

\* sendData: the whole payload in one transaction, data/command line high
sendData(e, bytes) ==
    << PinWrite(e.cs, Low), PinWrite(e.dc, High), SpiTransmit(bytes),
       PinWrite(e.cs, High) >>

sendCommandWithData(e, c, bytes) == sendCommand(e, c) \o sendData(e, bytes)

POWER_OFF == \h02
DEEP_SLEEP == \h07

\* reset with the low pulse left out
reset_NoPulse(e) ==
    << PinWrite(e.rst, High) >> \o wait(20) \o
    << PinWrite(e.rst, High) >> \o wait(20)

reset(e) ==
    << PinWrite(e.rst, High) >> \o wait(20) \o
    << PinWrite(e.rst, Low) >> \o wait(2) \o
    << PinWrite(e.rst, High) >> \o wait(20)

\* New that configures the signal lines before it acquires the resources
New_ConfigureFirst ==
    << PinMode(25, "Output"), PinMode(8, "Output"), PinMode(17, "Output"),
       PinMode(24, "Input"),
       [i |-> "open"], [i |-> "spibegin"], [i |-> "spics", n |-> 0],
       [i |-> "mkepd", dc |-> 25, cs |-> 8, rst |-> 17, busy |-> 24] >>

New ==
    << [i |-> "open"], [i |-> "spibegin"], [i |-> "spics", n |-> 0],
       PinMode(25, "Output"), PinMode(8, "Output"), PinMode(17, "Output"),
       PinMode(24, "Input"),
       [i |-> "mkepd", dc |-> 25, cs |-> 8, rst |-> 17, busy |-> 24] >>

\* Init that busy-waits right after power-on, without the 100 ms delay
Epd_Init_NoDelay(e) ==
    reset(e) \o
    sendCommandWithData(e, \h01, << \h07, \h07, \h3f, \h3f >>) \o
    sendCommandWithData(e, \h06, << \h17, \h17, \h28, \h17 >>) \o
    sendCommand(e, \h04) \o
    waitUntilIdle(e) \o
    sendCommandWithData(e, \h00, << \h1F >>) \o
    sendCommandWithData(e, \h61, << \h03, \h20, \h01, \hE0 >>) \o
    sendCommandWithData(e, \h15, << \h00 >>) \o
    sendCommandWithData(e, \h50, << \h10, \h17 >>) \o
    sendCommandWithData(e, \h52, << \h03 >>) \o
    sendCommandWithData(e, \h60, << \h22 >>)

\* Init that skips the reset pulse on a driver that is already initialised
Epd_Init_WarmStart(e) ==
    (IF life = "Ready" THEN <<>> ELSE reset(e)) \o
    sendCommandWithData(e, \h01, << \h07, \h07, \h3f, \h3f >>) \o
    sendCommandWithData(e, \h06, << \h17, \h17, \h28, \h17 >>) \o
    sendCommand(e, \h04) \o
    wait(100) \o
    waitUntilIdle(e) \o
    sendCommandWithData(e, \h00, << \h1F >>) \o
    sendCommandWithData(e, \h61, << \h03, \h20, \h01, \hE0 >>) \o
    sendCommandWithData(e, \h15, << \h00 >>) \o
    sendCommandWithData(e, \h50, << \h10, \h17 >>) \o
    sendCommandWithData(e, \h52, << \h03 >>) \o
    sendCommandWithData(e, \h60, << \h22 >>)

Epd_Init(e) ==
    reset(e) \o
    sendCommandWithData(e, \h01, << \h07, \h07, \h3f, \h3f >>) \o
    sendCommandWithData(e, \h06, << \h17, \h17, \h28, \h17 >>) \o
    sendCommand(e, \h04) \o
    wait(100) \o
    waitUntilIdle(e) \o
    sendCommandWithData(e, \h00, << \h1F >>) \o
    sendCommandWithData(e, \h61, << \h03, \h20, \h01, \hE0 >>) \o
    sendCommandWithData(e, \h15, << \h00 >>) \o
    sendCommandWithData(e, \h50, << \h10, \h17 >>) \o
    sendCommandWithData(e, \h52, << \h03 >>) \o
    sendCommandWithData(e, \h60, << \h22 >>)

\* Bounds that returns the last pixel instead of the exclusive corner
Epd_Bounds_Inclusive(e) ==
    << [i |-> "result",
        v |-> [Min |-> e.bounds.Min,
               Max |-> [X |-> e.bounds.Max.X - 1, Y |-> e.bounds.Max.Y - 1]]] >>

Epd_Bounds(e) == << [i |-> "result", v |-> e.bounds] >>

\* Turn-On-Display that sends the power-on opcode instead of the refresh one
turnOnDisplay_PowerOn(e) ==
    sendCommand(e, \h04) \o wait(100) \o waitUntilIdle(e)

\* Turn-On-Display that polls the busy line before the 100 ms have elapsed
turnOnDisplay_PollFirst(e) ==
    sendCommand(e, \h12) \o waitUntilIdle(e) \o wait(100)

turnOnDisplay(e) == sendCommand(e, \h12) \o wait(100) \o waitUntilIdle(e)

\* display that writes a blank old-data plane instead of the buffer
display_BlankOld(e, buf) ==
    sendCommand(e, \h10) \o sendData(e, Replicate(Len(buf), \h00)) \o
    sendCommand(e, \h13) \o sendData(e, buf) \o
    turnOnDisplay(e)

display(e, buf) ==
    sendCommand(e, \h10) \o sendData(e, buf) \o
    sendCommand(e, \h13) \o sendData(e, buf) \o
    turnOnDisplay(e)

Epd_DisplayImage(e, image) ==
    << [i |-> "getBuffer", image |-> image, threshold |-> 199,
        then |-> "display"] >>

\* Clear that writes the blank plane first and the 0xFF plane second
Epd_Clear_PlanesSwapped(e) ==
    LET w == IF EPD_WIDTH % PIXEL_SIZE = 0
             THEN EPD_WIDTH \div PIXEL_SIZE
             ELSE EPD_WIDTH \div PIXEL_SIZE + 1
        h == EPD_HEIGHT
    IN  << [i |-> "make", n |-> EPD_WIDTH \div 8] >> \o
        sendCommand(e, \h10) \o
        << [i |-> "fill", n |-> w, v |-> \h00] >> \o
        Replicate(h, [i |-> "sendimg"]) \o
        sendCommand(e, \h13) \o
        << [i |-> "fill", n |-> w, v |-> \hFF] >> \o
        Replicate(h, [i |-> "sendimg"]) \o
        turnOnDisplay(e)

\* Clear whose scanline loops stop one line short
Epd_Clear_ShortLoop(e) ==
    LET w == IF EPD_WIDTH % PIXEL_SIZE = 0
             THEN EPD_WIDTH \div PIXEL_SIZE
             ELSE EPD_WIDTH \div PIXEL_SIZE + 1
        h == EPD_HEIGHT
    IN  << [i |-> "make", n |-> EPD_WIDTH \div 8] >> \o
        sendCommand(e, \h10) \o
        << [i |-> "fill", n |-> w, v |-> \hFF] >> \o
        Replicate(h - 1, [i |-> "sendimg"]) \o
        sendCommand(e, \h13) \o
        << [i |-> "fill", n |-> w, v |-> \h00] >> \o
        Replicate(h - 1, [i |-> "sendimg"]) \o
        turnOnDisplay(e)

Epd_Clear(e) ==
    LET w == IF EPD_WIDTH % PIXEL_SIZE = 0
             THEN EPD_WIDTH \div PIXEL_SIZE
             ELSE EPD_WIDTH \div PIXEL_SIZE + 1
        h == EPD_HEIGHT
    IN  << [i |-> "make", n |-> EPD_WIDTH \div 8] >> \o
        sendCommand(e, \h10) \o
        << [i |-> "fill", n |-> w, v |-> \hFF] >> \o
        Replicate(h, [i |-> "sendimg"]) \o
        sendCommand(e, \h13) \o
        << [i |-> "fill", n |-> w, v |-> \h00] >> \o
        Replicate(h, [i |-> "sendimg"]) \o
        turnOnDisplay(e)

\* Sleep that busy-waits after the deep-sleep command instead of before it
Epd_Sleep_WaitAfter(e) ==
    sendCommand(e, POWER_OFF) \o
    sendCommandWithData(e, DEEP_SLEEP, << \ha5 >>) \o
    waitUntilIdle(e) \o
    wait(2000)

Epd_Sleep(e) ==
    sendCommand(e, POWER_OFF) \o
    waitUntilIdle(e) \o
    sendCommandWithData(e, DEEP_SLEEP, << \ha5 >>) \o
    wait(2000)

\* Close that releases the resources before it drives the lines low
Epd_Close_ReleaseFirst(e) ==
    << [i |-> "spiend"], [i |-> "close"],
       PinWrite(e.cs, Low), PinWrite(e.dc, Low), PinWrite(e.rst, Low) >>

Epd_Close(e) ==
    << PinWrite(e.cs, Low), PinWrite(e.dc, Low), PinWrite(e.rst, Low),
       [i |-> "spiend"], [i |-> "close"] >>

-----------------------------------------------------------------------------
(* Images and the pixel packer *)

\* darkness values an image's pixels take: white, just below the threshold,
\* the threshold, black
Shades == {0, 198, 199, 255}

PanelPixels == (0 .. EPD_WIDTH - 1) \X (0 .. EPD_HEIGHT - 1)

\* An image.Image: the darkness of each pixel inside its bounds (pix), and what
\* its At returns for a point outside them (outside).
\* Images of the panel's native size: uniform ones, and a single dark pixel on
\* a white ground
Images ==
    { [pix |-> [p \in PanelPixels |-> d], outside |-> 0] : d \in Shades } \cup
    { [pix |-> [p \in PanelPixels |-> IF p = q THEN 255 ELSE 0], outside |-> 0] :
        q \in PanelPixels }

\* images whose bounds are not the panel's: a black one that lacks the panel's
\* last column, and a white one a column and a row larger than the panel with
\* a black pixel in its far corner
ForeignImages ==
    { [pix |-> [p \in (0 .. EPD_WIDTH - 2) \X (0 .. EPD_HEIGHT - 1) |-> 255],
       outside |-> d] : d \in {0, 255} } \cup
    { [pix |-> [p \in (0 .. EPD_WIDTH) \X (0 .. EPD_HEIGHT) |->
                  IF p = <<EPD_WIDTH, EPD_HEIGHT>> THEN 255 ELSE 0],
       outside |-> 0] }

\* thresholds a packer call is given: everything black, the one DisplayImage
\* uses, only full black
Thresholds == {0, 199, 255}

\* img.At(x, y), as the pixel's darkness
At(image, x, y) ==
    IF <<x, y>> \in DOMAIN image.pix THEN image.pix[<<x, y>>] ELSE image.outside

\* isBlack: darkness at or above the threshold
isBlack(c, threshold) == c >= threshold

Dx(r) == r.Max.X - r.Min.X
Dy(r) == r.Max.Y - r.Min.Y

\* the px loop with the first pixel in the least significant bit
RECURSIVE packPixel_LsbFirst(_, _, _, _, _, _)
packPixel_LsbFirst(image, threshold, x, y, px, pixel) ==
    IF px >= PIXEL_SIZE THEN pixel
    ELSE packPixel_LsbFirst(image, threshold, x, y, px + 1,
                            IF isBlack(At(image, x + px, y), threshold)
                            THEN BitOr(pixel, Pow2(px))
                            ELSE pixel)

RECURSIVE packPixel(_, _, _, _, _, _)
packPixel(image, threshold, x, y, px, pixel) ==
    IF px >= PIXEL_SIZE THEN pixel
    ELSE packPixel(image, threshold, x, y, px + 1,
                   IF isBlack(At(image, x + px, y), threshold)
                   THEN BitOr(pixel, Shr(\h80, px))
                   ELSE pixel)

\* the iterations <<y, x>> of getBuffer's two loops
getBufferLoop(e) ==
    (0 .. Dy(e.bounds) - 1) \X
    { x \in 0 .. Dx(e.bounds) - 1 : x % PIXEL_SIZE = 0 }

\* the index without the division by the pixels per byte
getBufferIndex_NoDiv(e, wr) == wr[1] * e.pixelWidth + wr[2]

\* the buffer index an iteration writes
getBufferIndex(e, wr) == wr[1] * e.pixelWidth + wr[2] \div PIXEL_SIZE

\* the pixels <<x, y>> an iteration reads through img.At
getBufferReads(e, wr) == { <<wr[2] + px, wr[1]>> : px \in 0 .. PIXEL_SIZE - 1 }

\* a packer with one byte per pixel
getBuffer_Unpacked(e, image, threshold) ==
    [panic |-> FALSE,
     buffer |-> [k \in 1 .. Dx(e.bounds) * Dy(e.bounds) |-> 0]]

\* a packer that returns a blank buffer while the panel sleeps
getBuffer_Stateful(e, image, threshold) ==
    [panic |-> FALSE,
     buffer |->
        [k \in 1 .. e.bufferSize |->
            IF life = "Asleep" THEN 0
            ELSE packPixel(image, threshold,
                           ((k - 1) % e.pixelWidth) * PIXEL_SIZE,
                           (k - 1) \div e.pixelWidth, 0, \h00)]]

\* getBuffer returns [panic, buffer]: panic when an index falls outside the
\* buffer (Go's index out of range), else the packed buffer
getBuffer(e, image, threshold) ==
    LET writes == getBufferLoop(e)
        index(wr) == getBufferIndex(e, wr)
        later(a, b) == a[1] > b[1] \/ (a[1] = b[1] /\ a[2] >= b[2])
        lastAt(k) == CHOOSE wr \in writes :
                        /\ index(wr) = k
                        /\ \A o \in writes : index(o) = k => later(wr, o)
    IN  IF \E wr \in writes : index(wr) >= e.bufferSize
        THEN [panic |-> TRUE, buffer |-> <<>>]
        ELSE [panic |-> FALSE,
              buffer |->
                [ k \in 1 .. e.bufferSize |->
                    IF \E wr \in writes : index(wr) = k - 1
                    THEN packPixel(image, threshold, lastAt(k - 1)[2],
                                   lastAt(k - 1)[1], 0, \h00)
                    ELSE 0 ]]

-----------------------------------------------------------------------------
(* The lifecycle of spec.md 4.3, as a history of the completed calls *)

LifeAfter(op, result, l) ==
    IF l = "Closed" THEN "Closed"
    ELSE CASE op = "New" -> IF result = "error" THEN l ELSE "Uninitialized"
           [] op = "Init" -> "Ready"
           [] op = "Sleep" -> "Asleep"
           [] op = "Close" -> "Closed"
           [] OTHER -> l

-----------------------------------------------------------------------------
(* Initial state: nothing constructed, one panel of the family *)

Geometries ==
    { <<PIXEL_SIZE_ * n, h, PIXEL_SIZE_>> :
        n \in 1 .. MaxRowBytes, h \in 1 .. MaxHeight, PIXEL_SIZE_ \in {8} }

\* panels whose width need not be a multiple of the pixels per byte, and
\* whose pixels per byte need not be 8
AnyGeometries ==
    { <<w, h, PIXEL_SIZE_>> :
        w \in 1 .. 8 * MaxRowBytes, h \in 1 .. MaxHeight,
        PIXEL_SIZE_ \in {4, 8, 16} }

\* the build's panel is one of the family
Panel(family) ==
    \E g \in family :
        /\ EPD_WIDTH = g[1]
        /\ EPD_HEIGHT = g[2]
        /\ PIXEL_SIZE = g[3]

Unconstructed ==
    /\ epd = Nil
    /\ gpioOpen = FALSE
    /\ spiOpen = FALSE
    /\ pinMode = [p \in Pins |-> "Unset"]
    /\ pinLevel = [p \in Pins |-> "Unset"]
    /\ cur = "idle"
    /\ last = "none"
    /\ arg = Nil
    /\ todo = <<>>
    /\ log = <<>>
    /\ polls = 0
    /\ ret = [kind |-> "none"]
    /\ buffer = <<>>
    /\ img = <<>>
    /\ life = "Unconstructed"
    /\ calledIn = "Unconstructed"
    /\ closeCalled = FALSE
    /\ first = Nil

Init ==
    /\ Panel(Geometries)
    /\ Unconstructed
    /\ input = Nil

-----------------------------------------------------------------------------
(* Calls *)

Begin(op, body) ==
    /\ cur = "idle"
    /\ cur' = op
    /\ last' = op
    /\ todo' = body
    /\ log' = <<>>
    /\ polls' = 0
    /\ ret' = [kind |-> "pending"]
    /\ buffer' = <<>>
    /\ img' = <<>>
    /\ calledIn' = life
    /\ UNCHANGED <<geometry, epd, hardware, life>>

CallNew ==
    /\ epd = Nil
    /\ Begin("New", New)
    /\ arg' = Nil
    /\ UNCHANGED <<closeCalled, input, first>>

CallInit ==
    /\ epd # Nil
    /\ Begin("Init", Epd_Init(epd))
    /\ arg' = Nil
    /\ UNCHANGED <<closeCalled, input, first>>

CallBounds ==
    /\ epd # Nil
    /\ Begin("Bounds", Epd_Bounds(epd))
    /\ arg' = Nil
    /\ UNCHANGED <<closeCalled, input, first>>

CallDisplayImage ==
    /\ epd # Nil
    /\ \E image \in Images :
          /\ Begin("DisplayImage", Epd_DisplayImage(epd, image))
          /\ arg' = [image |-> image, threshold |-> 199]
    /\ UNCHANGED <<closeCalled, input, first>>

\* DisplayImage of the behaviour's input image
CallDisplayInput ==
    /\ epd # Nil
    /\ input # Nil
    /\ Begin("DisplayImage", Epd_DisplayImage(epd, input.image))
    /\ arg' = [image |-> input.image, threshold |-> 199]
    /\ UNCHANGED <<closeCalled, input, first>>

\* a direct call e.getBuffer(img, threshold), as package code can make it
CallGetBuffer ==
    /\ epd # Nil
    /\ input # Nil
    /\ Begin("getBuffer",
             << [i |-> "getBuffer", image |-> input.image,
                 threshold |-> input.threshold, then |-> "return"] >>)
    /\ arg' = input
    /\ UNCHANGED <<closeCalled, input, first>>

CallClear ==
    /\ epd # Nil
    /\ Begin("Clear", Epd_Clear(epd))
    /\ arg' = Nil
    /\ UNCHANGED <<closeCalled, input, first>>

CallSleep ==
    /\ epd # Nil
    /\ Begin("Sleep", Epd_Sleep(epd))
    /\ arg' = Nil
    /\ UNCHANGED <<closeCalled, input, first>>

CallClose ==
    /\ epd # Nil
    /\ Begin("Close", Epd_Close(epd))
    /\ arg' = Nil
    /\ closeCalled' = TRUE
    /\ UNCHANGED <<input, first>>

-----------------------------------------------------------------------------
(* Statements, one step each *)

Running == cur \notin {"idle", "crashed"} /\ todo # <<>>

Stmt == Head(todo)

\* the statement's event is recorded and the operation moves on
Advance(ev) ==
    /\ log' = Append(log, ev)
    /\ todo' = Tail(todo)
    /\ UNCHANGED <<cur, ret>>

\* the operation dies: a Go panic, or a fault on released memory
Crash(ev) ==
    /\ log' = Append(log, ev)
    /\ todo' = <<>>
    /\ cur' = "crashed"
    /\ ret' = [kind |-> "panic"]

\* rpio.Open(): may fail
DoOpen ==
    /\ Running /\ Stmt.i = "open"
    /\ \E ok \in BOOLEAN :
          /\ log' = Append(log, [t |-> "open", ok |-> ok])
          /\ IF ok
             THEN gpioOpen' = TRUE /\ todo' = Tail(todo) /\ UNCHANGED ret
             ELSE UNCHANGED gpioOpen /\ todo' = <<>>
                  /\ ret' = [kind |-> "error", err |-> "Open"]
    /\ UNCHANGED <<geometry, epd, spiOpen, pinMode, pinLevel, cur, last, arg,
                   polls, locals, life, calledIn, closeCalled, input, first>>

\* rpio.SpiBegin(rpio.Spi0): may fail; New returns without closing anything
DoSpiBegin ==
    /\ Running /\ Stmt.i = "spibegin"
    /\ \E ok \in BOOLEAN :
          /\ log' = Append(log, [t |-> "spibegin", ok |-> ok])
          /\ IF ok
             THEN spiOpen' = TRUE /\ todo' = Tail(todo) /\ UNCHANGED ret
             ELSE UNCHANGED spiOpen /\ todo' = <<>>
                  /\ ret' = [kind |-> "error", err |-> "SpiBegin"]
    /\ UNCHANGED <<geometry, epd, gpioOpen, pinMode, pinLevel, cur, last, arg,
                   polls, locals, life, calledIn, closeCalled, input, first>>

\* rpio.SpiChipSelect(0)
DoSpiChipSelect ==
    /\ Running /\ Stmt.i = "spics"
    /\ Advance([t |-> "spics", n |-> Stmt.n])
    /\ UNCHANGED <<geometry, epd, hardware, last, arg, polls, locals, life,
                   calledIn, closeCalled, input, first>>

\* pin.Output() / pin.Input()
DoPinMode ==
    /\ Running /\ Stmt.i = "mode"
    /\ Advance([t |-> "mode", pin |-> Stmt.pin, dir |-> Stmt.dir])
    /\ pinMode' = [pinMode EXCEPT ![Stmt.pin] = Stmt.dir]
    /\ UNCHANGED <<geometry, epd, gpioOpen, spiOpen, pinLevel, last, arg,
                   polls, locals, life, calledIn, closeCalled, input, first>>

\* d := &Epd{...}; return d, nil
DoMakeEpd ==
    /\ Running /\ Stmt.i = "mkepd"
    /\ LET bounds == [Min |-> [X |-> 0, Y |-> 0],
                      Max |-> [X |-> EPD_WIDTH, Y |-> EPD_HEIGHT]]
           pixelWidth == EPD_WIDTH \div PIXEL_SIZE
           bufferSize == pixelWidth * EPD_HEIGHT
       IN  epd' = [dc |-> Stmt.dc, cs |-> Stmt.cs, rst |-> Stmt.rst,
                   busy |-> Stmt.busy, bounds |-> bounds,
                   bufferSize |-> bufferSize, pixelWidth |-> pixelWidth]
    /\ todo' = Tail(todo)
    /\ ret' = [kind |-> "epd"]
    /\ UNCHANGED <<geometry, hardware, cur, last, arg, log, polls, locals,
                   life, calledIn, closeCalled, input, first>>

\* pin.Write(level).  On a released GPIO resource (live = FALSE) the write
\* reaches unmapped memory: it faults, or goes nowhere and the call goes on.
DoPinWrite ==
    /\ Running /\ Stmt.i = "pinw"
    /\ LET ev == [t |-> "pin", pin |-> Stmt.pin, v |-> Stmt.v,
                  live |-> gpioOpen]
       IN  \/ /\ Advance(ev)
              /\ pinLevel' = [pinLevel EXCEPT ![Stmt.pin] = Stmt.v]
           \/ /\ ~gpioOpen
              /\ Crash(ev)
              /\ UNCHANGED pinLevel
    /\ UNCHANGED <<geometry, epd, gpioOpen, spiOpen, pinMode, last, arg,
                   polls, locals, life, calledIn, closeCalled, input, first>>

\* one SPI transfer; the panel takes the bytes as a command or as data
\* according to the data/command line at that moment
DoSpiTransmit ==
    /\ Running /\ Stmt.i = "spi"
    /\ LET ev == [t |-> "spi", dc |-> pinLevel[epd.dc],
                  cs |-> pinLevel[epd.cs], bytes |-> Stmt.bytes,
                  live |-> gpioOpen /\ spiOpen]
       IN  \/ Advance(ev)
           \/ ~(gpioOpen /\ spiOpen) /\ Crash(ev)
    /\ UNCHANGED <<geometry, epd, hardware, last, arg, polls, locals, life,
                   calledIn, closeCalled, input, first>>

\* wait(ms)
DoWait ==
    /\ Running /\ Stmt.i = "wait"
    /\ Advance([t |-> "wait", ms |-> Stmt.ms])
    /\ UNCHANGED <<geometry, epd, hardware, last, arg, polls, locals, life,
                   calledIn, closeCalled, input, first>>

\* a busy-wait that gives up after MaxPolls busy readings
DoPoll_Timeout ==
    /\ Running /\ Stmt.i = "poll"
    /\ \E busy \in BOOLEAN :
          LET ev == [t |-> "poll", pin |-> Stmt.pin, busy |-> busy,
                     live |-> gpioOpen]
          IN  \/ /\ busy
                 /\ polls < MaxPolls
                 /\ todo' = << [i |-> "pollwait"] >> \o todo
                 /\ log' = Append(log, ev)
                 /\ polls' = polls + 1
                 /\ UNCHANGED <<cur, ret>>
              \/ /\ busy
                 /\ polls >= MaxPolls
                 /\ todo' = Tail(todo)
                 /\ polls' = 0
                 /\ UNCHANGED <<cur, ret, log>>
              \/ /\ ~busy
                 /\ Advance(ev)
                 /\ polls' = 0
              \/ /\ ~gpioOpen
                 /\ Crash(ev)
                 /\ polls' = 0
    /\ UNCHANGED <<geometry, epd, hardware, last, arg, locals, life,
                   calledIn, closeCalled, input, first>>

\* waitUntilIdle, one reading of the busy line: busy loops through the
\* inter-poll delay, not busy leaves the loop.  Only the first MaxPolls busy
\* readings of a busy-wait are recorded.
DoPoll ==
    /\ Running /\ Stmt.i = "poll"
    /\ \E busy \in BOOLEAN :
          LET ev == [t |-> "poll", pin |-> Stmt.pin, busy |-> busy,
                     live |-> gpioOpen]
          IN  \/ /\ busy
                 /\ todo' = << [i |-> "pollwait"] >> \o todo
                 /\ log' = IF polls < MaxPolls THEN Append(log, ev) ELSE log
                 /\ polls' = IF polls < MaxPolls THEN polls + 1 ELSE polls
                 /\ UNCHANGED <<cur, ret>>
              \/ /\ ~busy
                 /\ Advance(ev)
                 /\ polls' = 0
              \/ /\ ~gpioOpen
                 /\ Crash(ev)
                 /\ polls' = 0
    /\ UNCHANGED <<geometry, epd, hardware, last, arg, locals, life,
                   calledIn, closeCalled, input, first>>

\* the delay between two polls of the busy line
DoPollWait ==
    /\ Running /\ Stmt.i = "pollwait"
    /\ todo' = Tail(todo)
    /\ log' = IF log[Len(log)].t = "poll"
              THEN Append(log, [t |-> "pollwait"])
              ELSE log
    /\ UNCHANGED <<geometry, epd, hardware, cur, last, arg, polls, ret,
                   locals, life, calledIn, closeCalled, input, first>>

\* buffer := e.getBuffer(img, 199); e.display(buffer)
DoGetBuffer ==
    /\ Running /\ Stmt.i = "getBuffer"
    /\ LET b == getBuffer(epd, Stmt.image, Stmt.threshold)
       IN  IF b.panic
           THEN /\ todo' = <<>>
                /\ cur' = "crashed"
                /\ ret' = [kind |-> "panic"]
                /\ UNCHANGED buffer
                /\ UNCHANGED first
           ELSE /\ buffer' = b.buffer
                /\ IF Stmt.then = "display"
                   THEN /\ todo' = display(epd, b.buffer) \o Tail(todo)
                        /\ UNCHANGED <<cur, ret, first>>
                   ELSE /\ todo' = Tail(todo)
                        /\ ret' = [kind |-> "value", v |-> b.buffer]
                        /\ first' = IF first = Nil
                                    THEN [image |-> Stmt.image,
                                          threshold |-> Stmt.threshold,
                                          buffer |-> b.buffer]
                                    ELSE first
                        /\ UNCHANGED cur
    /\ UNCHANGED <<geometry, epd, hardware, last, arg, log, polls, img, life,
                   calledIn, closeCalled, input>>

\* img := make([]byte, EPD_WIDTH/8)
DoMake ==
    /\ Running /\ Stmt.i = "make"
    /\ img' = Replicate(Stmt.n, 0)
    /\ todo' = Tail(todo)
    /\ UNCHANGED <<geometry, epd, hardware, cur, last, arg, log, polls, ret,
                   buffer, life, calledIn, closeCalled, input, first>>

\* for i := 0; i < w; i++ { img[i] = v }: an index past the slice panics
DoFill ==
    /\ Running /\ Stmt.i = "fill"
    /\ img' = [k \in 1 .. Len(img) |-> IF k <= Stmt.n THEN Stmt.v ELSE img[k]]
    /\ IF Stmt.n > Len(img)
       THEN /\ todo' = <<>>
            /\ cur' = "crashed"
            /\ ret' = [kind |-> "panic"]
       ELSE /\ todo' = Tail(todo)
            /\ UNCHANGED <<cur, ret>>
    /\ UNCHANGED <<geometry, epd, hardware, last, arg, log, polls, buffer,
                   life, calledIn, closeCalled, input, first>>

\* e.sendData(img), inside the scanline loop
DoSendImg ==
    /\ Running /\ Stmt.i = "sendimg"
    /\ todo' = sendData(epd, img) \o Tail(todo)
    /\ UNCHANGED <<geometry, epd, hardware, cur, last, arg, log, polls, ret,
                   locals, life, calledIn, closeCalled, input, first>>

\* return e.bounds
DoResult ==
    /\ Running /\ Stmt.i = "result"
    /\ ret' = [kind |-> "value", v |-> Stmt.v]
    /\ todo' = Tail(todo)
    /\ UNCHANGED <<geometry, epd, hardware, cur, last, arg, log, polls,
                   locals, life, calledIn, closeCalled, input, first>>

\* rpio.SpiEnd(rpio.Spi0)
DoSpiEnd ==
    /\ Running /\ Stmt.i = "spiend"
    /\ LET ev == [t |-> "spiend", live |-> gpioOpen /\ spiOpen]
       IN  \/ Advance(ev) /\ spiOpen' = FALSE
           \/ ~gpioOpen /\ Crash(ev) /\ UNCHANGED spiOpen
    /\ UNCHANGED <<geometry, epd, gpioOpen, pinMode, pinLevel, last, arg,
                   polls, locals, life, calledIn, closeCalled, input, first>>

\* rpio.Close()
DoClose ==
    /\ Running /\ Stmt.i = "close"
    /\ Advance([t |-> "close", live |-> gpioOpen])
    /\ gpioOpen' = FALSE
    /\ UNCHANGED <<geometry, epd, spiOpen, pinMode, pinLevel, last, arg,
                   polls, locals, life, calledIn, closeCalled, input, first>>

\* the operation has run to its end and returns to the caller
Return ==
    /\ cur \notin {"idle", "crashed"}
    /\ todo = <<>>
    /\ cur' = "idle"
    /\ ret' = IF ret.kind = "pending" THEN [kind |-> "void"] ELSE ret
    /\ life' = LifeAfter(cur, ret.kind, life)
    /\ UNCHANGED <<geometry, epd, hardware, last, arg, todo, log, polls,
                   locals, calledIn, closeCalled, input, first>>

Next ==
    \/ CallNew \/ CallInit \/ CallBounds \/ CallDisplayImage \/ CallClear
    \/ CallSleep \/ CallClose
    \/ DoOpen \/ DoSpiBegin \/ DoSpiChipSelect \/ DoPinMode \/ DoMakeEpd
    \/ DoPinWrite \/ DoSpiTransmit \/ DoWait \/ DoPoll \/ DoPollWait
    \/ DoGetBuffer \/ DoMake \/ DoFill \/ DoSendImg \/ DoResult
    \/ DoSpiEnd \/ DoClose
    \/ Return

Spec == Init /\ [][Next]_vars

-----------------------------------------------------------------------------
(* The packer on its own: one image and one threshold per behaviour, packed
   directly and through DisplayImage *)

PackInputs ==
    { [image |-> image, threshold |-> threshold] :
        image \in Images \cup ForeignImages, threshold \in Thresholds }

InitPack ==
    /\ Panel(Geometries)
    /\ Unconstructed
    /\ input \in PackInputs

NextPack ==
    \/ CallNew
    \/ CallGetBuffer
    \/ CallDisplayInput
    \/ DoOpen
    \/ DoSpiBegin
    \/ DoSpiChipSelect
    \/ DoPinMode
    \/ DoMakeEpd
    \/ DoGetBuffer
    \/ DoPinWrite
    \/ DoSpiTransmit
    \/ DoWait
    \/ DoPoll
    \/ DoPollWait
    \/ Return

SpecPack == InitPack /\ [][NextPack]_vars

-----------------------------------------------------------------------------
(* The packer among the other operations: a few inputs, every operation *)

PureInputs ==
    { [image |-> [pix |-> [p \in PanelPixels |->
                             IF p = <<EPD_WIDTH - 1, EPD_HEIGHT - 1>>
                             THEN 255 ELSE 199],
                  outside |-> 0],
       threshold |-> threshold] : threshold \in {199, 255} }

InitPure ==
    /\ Panel(Geometries)
    /\ Unconstructed
    /\ input \in PureInputs

NextPure ==
    \/ CallNew
    \/ CallInit
    \/ CallBounds
    \/ CallGetBuffer
    \/ CallDisplayInput
    \/ CallClear
    \/ CallSleep
    \/ CallClose
    \/ DoOpen
    \/ DoSpiBegin
    \/ DoSpiChipSelect
    \/ DoPinMode
    \/ DoMakeEpd
    \/ DoPinWrite
    \/ DoSpiTransmit
    \/ DoWait
    \/ DoPoll
    \/ DoPollWait
    \/ DoGetBuffer
    \/ DoMake
    \/ DoFill
    \/ DoSendImg
    \/ DoResult
    \/ DoSpiEnd
    \/ DoClose
    \/ Return

SpecPure == InitPure /\ [][NextPure]_vars

-----------------------------------------------------------------------------
(* Clear on panels of any width and any number of pixels per byte *)

InitAny ==
    /\ Panel(AnyGeometries)
    /\ Unconstructed
    /\ input = Nil

NextAny ==
    \/ CallNew
    \/ CallClear
    \/ DoOpen
    \/ DoSpiBegin
    \/ DoSpiChipSelect
    \/ DoPinMode
    \/ DoMakeEpd
    \/ DoPinWrite
    \/ DoSpiTransmit
    \/ DoWait
    \/ DoPoll
    \/ DoPollWait
    \/ DoMake
    \/ DoFill
    \/ DoSendImg
    \/ Return

SpecAny == InitAny /\ [][NextAny]_vars

-----------------------------------------------------------------------------
(* What the panel sees: the log as a sequence of tokens *)

Cmd(b) == [k |-> "cmd", bytes |-> <<b>>]
Data(bytes) == [k |-> "data", bytes |-> bytes]
Wt(ms) == [k |-> "wait", ms |-> ms]
Level(pin, v) == [k |-> "pin", pin |-> pin, v |-> v]
Busy == [k |-> "poll", busy |-> TRUE]
Idle == [k |-> "poll", busy |-> FALSE]
PollDelay == [k |-> "pollwait"]

\* an SPI transfer is a command when the data/command line is low, data when
\* it is high
Tok(ev) ==
    CASE ev.t = "spi" -> [k |-> IF ev.dc = Low THEN "cmd" ELSE "data",
                          bytes |-> ev.bytes]
      [] ev.t = "wait" -> Wt(ev.ms)
      [] ev.t = "pin" -> Level(ev.pin, ev.v)
      [] ev.t = "poll" -> [k |-> "poll", busy |-> ev.busy]
      [] ev.t = "pollwait" -> PollDelay
      [] OTHER -> [k |-> ev.t]

Toks == [i \in 1 .. Len(log) |-> Tok(log[i])]

\* the log without the chip-select and data/command framing of the transfers
Unframed ==
    LET keep(t) == ~(t.k = "pin" /\ t.pin \in {8, 25})
    IN  SelectSeq(Toks, keep)

\* the log without framing and without the busy readings of the busy-waits:
\* a completed busy-wait is the one Idle token
Wire ==
    LET keep(t) == t # Busy /\ t # PollDelay
    IN  SelectSeq(Unframed, keep)

IsPrefix(a, b) == Len(a) <= Len(b) /\ a = SubSeq(b, 1, Len(a))

\* every reading of the busy line belongs to a busy-wait that starts right
\* after the token after: a reading follows after or an inter-poll delay, a
\* delay follows a busy reading, and nothing but a delay follows a busy reading
BusyWaitsOnlyAfter(after) ==
    LET s == Unframed
    IN  \A i \in 1 .. Len(s) :
          /\ s[i].k = "poll" =>
                i > 1 /\ (s[i - 1] = after \/ s[i - 1] = PollDelay)
          /\ s[i] = PollDelay => i > 1 /\ s[i - 1] = Busy
          /\ (s[i] = Busy /\ i < Len(s)) => s[i + 1] = PollDelay

Returned(op) == cur = "idle" /\ last = op
During(op) == last = op /\ cur \in {op, "idle", "crashed"}

-----------------------------------------------------------------------------
(* C1 *)

InitWire ==
    << Level(17, High), Wt(20), Level(17, Low), Wt(2), Level(17, High),
       Wt(20),
       Cmd(1), Data(<<7, 7, 63, 63>>),
       Cmd(6), Data(<<23, 23, 40, 23>>),
       Cmd(4), Wt(100), Idle,
       Cmd(0), Data(<<31>>),
       Cmd(97), Data(<<3, 32, 1, 224>>),
       Cmd(21), Data(<<0>>),
       Cmd(80), Data(<<16, 23>>),
       Cmd(82), Data(<<3>>),
       Cmd(96), Data(<<34>>) >>

\* C1: at every moment of an Init call what has been sent is a prefix of: the
\* reset pulse, command 0x01 and its payload, 0x06 and its payload, 0x04, a
\* wait of 100 ms, a busy-wait, then 0x00, 0x61, 0x15, 0x50, 0x52, 0x60 each
\* followed by its payload; the busy line is read only between the 100 ms wait
\* and the end of the busy-wait; and when Init returns all of it has been sent.
C1_InitSequence ==
    During("Init") =>
        /\ IsPrefix(Wire, InitWire)
        /\ BusyWaitsOnlyAfter(Wt(100))
        /\ Returned("Init") => Wire = InitWire

\* an Init call has returned on a live driver after a busy-wait that read busy
C1_Witness ==
    /\ Returned("Init")
    /\ calledIn = "Uninitialized"
    /\ \E i \in 1 .. Len(log) : log[i].t = "poll" /\ log[i].busy

-----------------------------------------------------------------------------
(* C4 *)

\* C4: an Init call starts with the reset sequence and nothing else: its
\* first six events are reset high, wait 20 ms, reset low, wait 2 ms, reset
\* high, wait 20 ms, with no bus transfer and no other line written between
\* them, and the reset line is high from the fifth event until the call ends.
C4_ResetPulse ==
    During("Init") =>
        /\ IsPrefix(SubSeq(Toks, 1, IF Len(log) < 6 THEN Len(log) ELSE 6),
                    << Level(17, High), Wt(20), Level(17, Low), Wt(2),
                       Level(17, High), Wt(20) >>)
        /\ (Len(log) >= 5 /\ cur # "crashed") => pinLevel[17] = High
        /\ (Len(log) \in 3 .. 4 /\ cur # "crashed") => pinLevel[17] = Low

\* reset has just returned inside an Init call on a live driver
C4_Witness ==
    /\ cur = "Init"
    /\ Len(log) = 6
    /\ gpioOpen
    /\ pinLevel[17] = High

-----------------------------------------------------------------------------
(* C2 *)

DataWrites == { i \in 1 .. Len(Wire) : Wire[i].k = "data" }

\* C2: at every moment of a DisplayImage call what has been sent is a prefix
\* of: command 0x10, the packed buffer, command 0x13, the same packed buffer,
\* command 0x12, a wait of 100 ms, a busy-wait; when the call returns there
\* have been exactly two data writes, of equal length and with equal bytes.
C2_DisplayTwoWrites ==
    During("DisplayImage") =>
        /\ IsPrefix(Wire, << Cmd(16), Data(buffer), Cmd(19), Data(buffer),
                            Cmd(18), Wt(100), Idle >>)
        /\ Returned("DisplayImage") =>
              /\ DataWrites = {2, 4}
              /\ Len(Wire[2].bytes) = Len(Wire[4].bytes)
              /\ Wire[2].bytes = Wire[4].bytes
              /\ Wire[1] = Cmd(16) /\ Wire[3] = Cmd(19) /\ Wire[5] = Cmd(18)

\* a DisplayImage call of an image with a dark pixel has returned
C2_Witness ==
    /\ Returned("DisplayImage")
    /\ calledIn = "Ready"
    /\ \E k \in 1 .. Len(buffer) : buffer[k] # 0

-----------------------------------------------------------------------------
(* C3 *)

Refreshes == { i \in 1 .. Len(Unframed) : Unframed[i] = Cmd(18) }

\* C3: in a DisplayImage or Clear call, command 0x12 comes right after a data
\* write, is followed by a wait of 100 ms, and no bus transfer follows it; the
\* busy line is read only after that wait; and the call returns only with a
\* not-busy reading as its last event.
C3_TurnOnDisplay ==
    (During("DisplayImage") \/ During("Clear")) =>
        LET s == Unframed
        IN  /\ \A i \in Refreshes :
                  /\ i > 1 /\ s[i - 1].k = "data"
                  /\ i < Len(s) => s[i + 1] = Wt(100)
                  /\ \A j \in i + 1 .. Len(s) : s[j].k \notin {"cmd", "data"}
            /\ \A j \in 1 .. Len(s) :
                  s[j].k = "poll" =>
                      \E i \in Refreshes : i + 1 < j /\ s[i + 1] = Wt(100)
            /\ BusyWaitsOnlyAfter(Wt(100))
            /\ cur = "idle" =>
                  /\ Cardinality(Refreshes) = 1
                  /\ s[Len(s)] = Idle

\* a Clear call has returned after a busy-wait that read busy
C3_Witness ==
    /\ Returned("Clear")
    /\ calledIn = "Ready"
    /\ \E i \in 1 .. Len(log) : log[i].t = "poll" /\ log[i].busy

-----------------------------------------------------------------------------
(* C5 *)

\* C5: at every moment of a Sleep call what has been sent is a prefix of: the
\* power-off command, a busy-wait, the deep-sleep command, the payload 0xA5, a
\* wait of 2000 ms; the busy line is read only in the busy-wait that follows
\* the power-off command; when Sleep returns all of it has been sent.
C5_SleepSequence ==
    During("Sleep") =>
        LET SleepWire == << Cmd(POWER_OFF), Idle, Cmd(DEEP_SLEEP),
                            Data(<<165>>), Wt(2000) >>
        IN  /\ IsPrefix(Wire, SleepWire)
            /\ BusyWaitsOnlyAfter(Cmd(POWER_OFF))
            /\ Returned("Sleep") => Wire = SleepWire

\* a Sleep call has returned after a busy-wait that read busy
C5_Witness ==
    /\ Returned("Sleep")
    /\ calledIn = "Ready"
    /\ \E i \in 1 .. Len(log) : log[i].t = "poll" /\ log[i].busy

-----------------------------------------------------------------------------
(* C6 *)

CeilDiv(a, b) == (a + b - 1) \div b

\* C6: at every moment of a Clear call what has been sent is a prefix of:
\* command 0x10, H scanlines of ceil(W/G) bytes 0xFF, command 0x13, H
\* scanlines of ceil(W/G) bytes 0x00, then Turn-On-Display; when Clear returns
\* all of it has been sent.
C6_ClearPayload ==
    During("Clear") =>
        LET n == CeilDiv(EPD_WIDTH, PIXEL_SIZE)
            ClearWire ==
                << Cmd(16) >> \o
                [i \in 1 .. EPD_HEIGHT |-> Data([k \in 1 .. n |-> 255])] \o
                << Cmd(19) >> \o
                [i \in 1 .. EPD_HEIGHT |-> Data([k \in 1 .. n |-> 0])] \o
                << Cmd(18), Wt(100), Idle >>
        IN  /\ IsPrefix(Wire, ClearWire)
            /\ Returned("Clear") => Wire = ClearWire

\* a Clear call has returned on a panel of more than one scanline and more
\* than one byte per scanline
C6_Witness ==
    /\ Returned("Clear")
    /\ calledIn = "Ready"
    /\ EPD_HEIGHT > 1
    /\ EPD_WIDTH > PIXEL_SIZE

-----------------------------------------------------------------------------
(* C7 *)

CloseSeq ==
    << Level(8, Low), Level(25, Low), Level(17, Low), [k |-> "spiend"],
       [k |-> "close"] >>

\* C7: a Close call drives chip-select, data/command and reset low, then ends
\* the SPI bus, then closes the GPIO resource, and does nothing else; in the
\* first Close both resources are still open while the lines are driven; and
\* as long as no Close has been called on a constructed driver both are open.
C7_CloseReleases ==
    /\ During("Close") =>
          /\ IsPrefix(Toks, CloseSeq)
          /\ (calledIn # "Closed" /\ Len(log) <= 3) => (gpioOpen /\ spiOpen)
          /\ (calledIn # "Closed" /\ Len(log) = 4) => (gpioOpen /\ ~spiOpen)
          /\ Returned("Close") =>
                /\ Toks = CloseSeq
                /\ ~gpioOpen /\ ~spiOpen
                /\ pinLevel[8] = Low /\ pinLevel[25] = Low
                /\ pinLevel[17] = Low
    /\ (epd # Nil /\ ~closeCalled) => (gpioOpen /\ spiOpen)

\* the first Close of a driver that was initialized and put to sleep has
\* returned
C7_Witness ==
    /\ Returned("Close")
    /\ calledIn = "Asleep"
    /\ \A i \in 1 .. Len(log) : log[i].live

-----------------------------------------------------------------------------
(* C8 *)

\* C8: a call of Init, DisplayImage, Clear, Sleep or Close made after Close
\* has completed performs no signal write and no bus write, and if it returns
\* it returns an error.
C8_ClosedIsTerminal ==
    (calledIn = "Closed"
        /\ last \in {"Init", "DisplayImage", "Clear", "Sleep", "Close"}) =>
        /\ \A i \in 1 .. Len(log) : log[i].t \notin {"pin", "spi"}
        /\ cur = "idle" => ret.kind = "error"

-----------------------------------------------------------------------------
(* C9 *)

\* C9 as claimed: DisplayImage and Clear make bus transfers only in calls made
\* when the driver is Ready.
C9_OnlyWhenReady ==
    (last \in {"DisplayImage", "Clear"}
        /\ \E i \in 1 .. Len(log) : log[i].t = "spi") =>
        calledIn = "Ready"

\* C9, amended: the driver checks no lifecycle state, but the reset line is
\* driven high and the power-on command 0x04 is sent in Init calls only;
\* DisplayImage, Clear and Bounds leave the lifecycle state as they found it;
\* and an Init that returns on a driver that is not closed leaves it Ready,
\* having sent the whole of its sequence.
C9_OnlyInitWakes ==
    /\ (\E i \in 1 .. Len(log) : Toks[i] \in {Level(17, High), Cmd(4)}) =>
          last = "Init"
    /\ (cur = "idle" /\ last \in {"DisplayImage", "Clear", "Bounds"}) =>
          life = calledIn
    /\ (Returned("Init") /\ calledIn # "Closed") =>
          (life = "Ready" /\ Wire = InitWire)
    /\ (Returned("Sleep") /\ calledIn # "Closed") => life = "Asleep"

\* an Init called on a sleeping driver has returned
C9_Witness ==
    /\ Returned("Init")
    /\ calledIn = "Asleep"
    /\ life = "Ready"

-----------------------------------------------------------------------------
(* C10 *)

NewSeq ==
    << [t |-> "open", ok |-> TRUE], [t |-> "spibegin", ok |-> TRUE],
       [t |-> "spics", n |-> 0],
       [t |-> "mode", pin |-> 25, dir |-> "Output"],
       [t |-> "mode", pin |-> 8, dir |-> "Output"],
       [t |-> "mode", pin |-> 17, dir |-> "Output"],
       [t |-> "mode", pin |-> 24, dir |-> "Input"] >>

NewFailures ==
    { << [t |-> "open", ok |-> FALSE] >>,
      << [t |-> "open", ok |-> TRUE], [t |-> "spibegin", ok |-> FALSE] >> }

\* C10: a New call makes no bus transfer, writes no signal level and reads no
\* signal; when it returns a driver it has acquired both resources and set
\* three lines as outputs and one as input; when acquiring either resource
\* fails it returns the error and no driver, and no line is configured.
C10_NewTouchesNothing ==
    During("New") =>
        /\ \A i \in 1 .. Len(log) : log[i].t \notin {"pin", "spi", "poll"}
        /\ pinLevel = [p \in Pins |-> "Unset"]
        /\ IsPrefix(log, NewSeq) \/ log \in NewFailures
        /\ Returned("New") =>
              IF log \in NewFailures
              THEN /\ ret.kind = "error"
                   /\ epd = Nil
                   /\ pinMode = [p \in Pins |-> "Unset"]
              ELSE /\ ret.kind = "epd"
                   /\ epd # Nil
                   /\ log = NewSeq
                   /\ Cardinality({p \in Pins : pinMode[p] = "Output"}) = 3
                   /\ Cardinality({p \in Pins : pinMode[p] = "Input"}) = 1

\* New has returned the error of rpio.SpiBegin, after rpio.Open succeeded
C10_Witness ==
    /\ Returned("New")
    /\ ret.kind = "error"
    /\ ret.err = "SpiBegin"

-----------------------------------------------------------------------------
(* C11 *)

\* the operation is inside a busy-wait: about to read the busy line, or in the
\* delay between two readings
InBusyWait == Running /\ Stmt.i \in {"poll", "pollwait"}

\* the statements that follow the busy-wait the operation is in
AfterBusyWait == IF Stmt.i = "pollwait" THEN Tail(Tail(todo)) ELSE Tail(todo)

Transfers == SelectSeq(log, LAMBDA ev : ev.t = "spi")

\* C11: the busy-wait has no timeout.  A step taken inside a busy-wait of
\* Init, DisplayImage, Clear or Sleep either stays inside that busy-wait
\* (the operation has not returned, has reported nothing, has sent nothing
\* on the bus and still has every statement after the busy-wait before it),
\* or it is a reading of not busy, which ends the busy-wait and lets the
\* operation go on with the statement that follows.  However many busy
\* readings came before, only a not-busy reading ends the wait.  (On a driver
\* whose GPIO has been released the reading may fault instead.)
C11_NoTimeout ==
    [][ InBusyWait =>
          \/ /\ InBusyWait'
             /\ cur' = cur
             /\ ret' = ret
             /\ AfterBusyWait' = AfterBusyWait
             /\ Transfers' = Transfers
          \/ /\ Stmt.i = "poll"
             /\ todo' = Tail(todo)
             /\ Len(log') = Len(log) + 1
             /\ Tok(log'[Len(log')]) = Idle
             /\ cur' = cur
             /\ ret' = ret
          \/ /\ ~gpioOpen
             /\ cur' = "crashed" ]_vars

\* Init is still polling after MaxPolls busy readings in a row
C11_Witness ==
    /\ cur = "Init"
    /\ InBusyWait
    /\ Stmt.i = "poll"
    /\ polls = MaxPolls
    /\ gpioOpen

-----------------------------------------------------------------------------
(* C12 *)

\* the image has the panel's width and height
Native(image) == DOMAIN image.pix = PanelPixels

\* C12: for every image of the panel's native size and every threshold, a
\* getBuffer call does not fail and returns exactly (W / G) * H bytes; and
\* that is the length of every data write of a DisplayImage call, which
\* makes two of them.
C12_BufferLength ==
    LET n == (EPD_WIDTH \div PIXEL_SIZE) * EPD_HEIGHT
    IN  /\ (During("getBuffer") /\ Native(arg.image)) =>
              /\ cur # "crashed"
              /\ Returned("getBuffer") => (ret.kind = "value" /\ Len(ret.v) = n)
        /\ (During("DisplayImage") /\ Native(arg.image)) =>
              /\ cur # "crashed"
              /\ \A i \in DataWrites : Len(Wire[i].bytes) = n
              /\ Returned("DisplayImage") => Cardinality(DataWrites) = 2

\* getBuffer has returned more than one byte for a threshold other than
\* the one DisplayImage uses
C12_Witness ==
    /\ Returned("getBuffer")
    /\ Native(arg.image)
    /\ arg.threshold # 199
    /\ Len(ret.v) > 1

-----------------------------------------------------------------------------
(* C13 *)

\* bit 0x80 >> k of byte b is set
Bit(b, k) == (b \div (128 \div Pow2(k))) % 2 = 1

\* C13: in the buffer getBuffer returns for a native image, bit (0x80 >> k)
\* of byte y * (W / G) + j is set exactly when the pixel (j * G + k, y) has a
\* darkness at or above the threshold, for every row y, byte column j and
\* offset k < G.  So an image with no pixel at or above the threshold packs to
\* 0x00 in every byte, an image with every pixel at or above it packs to 0xFF
\* in every byte, and a lone black pixel at offset k on a white ground gives
\* its byte the value 0x80 >> k.
C13_BitLayout ==
    (Returned("getBuffer") /\ Native(arg.image)) =>
        LET image == arg.image
            t == arg.threshold
            rowBytes == EPD_WIDTH \div PIXEL_SIZE
            byte(y, j) == ret.v[y * rowBytes + j + 1]
        IN  /\ \A y \in 0 .. EPD_HEIGHT - 1 : \A j \in 0 .. rowBytes - 1 :
                  \A k \in 0 .. PIXEL_SIZE - 1 :
                      Bit(byte(y, j), k) <=>
                          image.pix[<<j * PIXEL_SIZE + k, y>>] >= t
            /\ (\A p \in PanelPixels : image.pix[p] < t) =>
                  \A i \in 1 .. Len(ret.v) : ret.v[i] = 0
            /\ (\A p \in PanelPixels : image.pix[p] >= t) =>
                  \A i \in 1 .. Len(ret.v) : ret.v[i] = 255
            /\ \A q \in PanelPixels :
                  (t > 0 /\ \A p \in PanelPixels :
                              image.pix[p] = IF p = q THEN 255 ELSE 0) =>
                      byte(q[2], q[1] \div PIXEL_SIZE) =
                          128 \div Pow2(q[1] % PIXEL_SIZE)

\* getBuffer has returned the buffer of a white image with one black pixel
\* at offset 3 of its byte
C13_Witness ==
    /\ Returned("getBuffer")
    /\ Native(arg.image)
    /\ arg.threshold = 255
    /\ \E q \in PanelPixels :
          /\ q[1] % PIXEL_SIZE = 3
          /\ \A p \in PanelPixels :
                arg.image.pix[p] = IF p = q THEN 255 ELSE 0
    /\ \E i \in 1 .. Len(ret.v) : ret.v[i] = 16

-----------------------------------------------------------------------------
(* C14 *)

\* C14: getBuffer is pure and deterministic.  The step that packs (in a
\* direct getBuffer call or inside DisplayImage) changes neither the driver's
\* fields nor the resources nor any signal level and performs no I/O; and the
\* buffer it produces for the image and threshold of the first direct call is
\* the buffer that call returned, whatever operations ran in between.
C14_Pure ==
    [][ (Running /\ Stmt.i = "getBuffer") =>
          /\ UNCHANGED <<epd, hardware, log, life, geometry>>
          /\ ( /\ cur' # "crashed"
               /\ first # Nil
               /\ first.image = Stmt.image
               /\ first.threshold = Stmt.threshold ) =>
                  buffer' = first.buffer ]_vars

\* a later direct getBuffer call, made while the panel sleeps, has returned
\* what the first one returned
C14_Witness ==
    /\ Returned("getBuffer")
    /\ calledIn = "Asleep"
    /\ first # Nil
    /\ ret.kind = "value"
    /\ ret.v = first.buffer
    /\ \E i \in 1 .. Len(ret.v) : ret.v[i] # 0

-----------------------------------------------------------------------------
(* C15 *)

\* C15: on a panel of any width W and any number G of pixels per byte, W not
\* a multiple of G and G other than 8 included, a Clear call makes no
\* out-of-range access, every scanline it sends has exactly ceil(W / G)
\* bytes, and when it returns it has sent 2 * H scanlines.
C15_ClearAnyWidth ==
    During("Clear") =>
        /\ cur # "crashed"
        /\ \A i \in DataWrites :
              Len(Wire[i].bytes) = CeilDiv(EPD_WIDTH, PIXEL_SIZE)
        /\ Returned("Clear") => Cardinality(DataWrites) = 2 * EPD_HEIGHT

-----------------------------------------------------------------------------
(* C16 *)

\* C16: the driver's fields never change once New has built them.  In every
\* state after construction, whatever sequence of Init, DisplayImage, Clear,
\* Sleep, Bounds (and Close) has run, the four signal handles are the pins
\* New chose, bounds is the rectangle (0,0)-(W,H), pixelWidth is W / G and
\* bufferSize is pixelWidth * H; and every Bounds call returns (0,0)-(W,H).
C16_Immutable ==
    LET panel == [Min |-> [X |-> 0, Y |-> 0],
                  Max |-> [X |-> EPD_WIDTH, Y |-> EPD_HEIGHT]]
    IN  epd # Nil =>
          /\ epd.dc = 25 /\ epd.cs = 8 /\ epd.rst = 17 /\ epd.busy = 24
          /\ epd.bounds = panel
          /\ epd.pixelWidth = EPD_WIDTH \div PIXEL_SIZE
          /\ epd.bufferSize = epd.pixelWidth * EPD_HEIGHT
          /\ Returned("Bounds") => ret = [kind |-> "value", v |-> panel]

\* a Bounds call has returned on a driver that was initialised and then put
\* to sleep
C16_Witness ==
    /\ Returned("Bounds")
    /\ calledIn = "Asleep"
    /\ ret.kind = "value"
    /\ ret.v.Max.X = EPD_WIDTH

-----------------------------------------------------------------------------
(* C17 *)

\* a command or data transfer inside its chip-select and data/command framing
RECURSIVE Frame(_)
Frame(w) ==
    IF w = <<>> THEN <<>>
    ELSE LET t == Head(w)
         IN  (CASE t.k = "cmd" ->
                     << Level(8, Low), Level(25, Low), t, Level(8, High) >>
                [] t.k = "data" ->
                     << Level(8, Low), Level(25, High), t, Level(8, High) >>
                [] OTHER -> << t >>) \o Frame(Tail(w))

\* everything the call did, framing included, a busy-wait being its one
\* not-busy reading
Framed == SelectSeq(Toks, LAMBDA t : t # Busy /\ t # PollDelay)

\* C17: Init is idempotent.  Every Init call that returns, whatever state it
\* was called in and whatever levels the lines had, has performed the same
\* sequence of signal writes, waits and bus transfers, starting with the
\* reset pulse, and leaves the reset, chip-select and data/command lines
\* high; so the configuration after Init; Init is that after one Init.
C17_InitIdempotent ==
    Returned("Init") =>
        /\ Framed = Frame(InitWire)
        /\ SubSeq(Framed, 1, 6) =
              << Level(17, High), Wt(20), Level(17, Low), Wt(2),
                 Level(17, High), Wt(20) >>
        /\ pinLevel[17] = High /\ pinLevel[8] = High /\ pinLevel[25] = High
        /\ ret = [kind |-> "void"]

\* an Init call has returned on a driver that was already initialised
C17_Witness ==
    /\ Returned("Init")
    /\ calledIn = "Ready"
    /\ gpioOpen

-----------------------------------------------------------------------------
(* C18 *)

\* C18: on a panel whose width is a multiple of G, getBuffer's loops write
\* every buffer index 0 .. (W / G) * H - 1 exactly once and compute no index
\* outside that range, and they read exactly the pixels 0 <= x < W,
\* 0 <= y < H, whatever the bounds of the image are: the call does not fail,
\* and each bit of the result is the pixel img.At gives at that panel
\* position (the image's answer for a point outside its bounds, where the
\* image is smaller than the panel).
C18_LoopCoverage ==
    (During("getBuffer") /\ EPD_WIDTH % PIXEL_SIZE = 0) =>
        LET n == (EPD_WIDTH \div PIXEL_SIZE) * EPD_HEIGHT
            loop == getBufferLoop(epd)
            rowBytes == EPD_WIDTH \div PIXEL_SIZE
        IN  /\ \A wr \in loop : getBufferIndex(epd, wr) \in 0 .. n - 1
            /\ \A k \in 0 .. n - 1 :
                  Cardinality({ wr \in loop : getBufferIndex(epd, wr) = k }) = 1
            /\ UNION { getBufferReads(epd, wr) : wr \in loop } = PanelPixels
            /\ cur # "crashed"
            /\ Returned("getBuffer") =>
                  /\ Len(ret.v) = n
                  /\ \A p \in PanelPixels :
                        Bit(ret.v[p[2] * rowBytes + p[1] \div PIXEL_SIZE + 1],
                            p[1] % PIXEL_SIZE) <=>
                        At(arg.image, p[1], p[2]) >= arg.threshold

\* getBuffer has returned for an image that lacks the panel's last column
\* and answers white outside its bounds
C18_Witness ==
    /\ Returned("getBuffer")
    /\ ~Native(arg.image)
    /\ <<EPD_WIDTH - 1, 0>> \notin DOMAIN arg.image.pix
    /\ arg.image.outside = 0
    /\ arg.threshold = 199
    /\ EPD_HEIGHT > 1
    /\ ret.v[Len(ret.v)] = 254

-----------------------------------------------------------------------------
(* C19 *)

\* C19: whenever New returns an error no resource is left open: neither the
\* GPIO nor the SPI bus; if SpiBegin failed after Open succeeded, the GPIO
\* has been closed again.
C19_NoLeakOnError ==
    (Returned("New") /\ ret.kind = "error") => (~gpioOpen /\ ~spiOpen)

-----------------------------------------------------------------------------
(* C20 *)

RECURSIVE Concat(_)
Concat(ss) == IF ss = <<>> THEN <<>> ELSE Head(ss) \o Concat(Tail(ss))

\* the bytes of the data writes that follow command c, up to the next command
PlaneAfter(c) ==
    LET at(i) == Wire[i] = Cmd(c)
        start == CHOOSE i \in 1 .. Len(Wire) : at(i)
        inPlane(i) == /\ i > start
                      /\ Wire[i].k = "data"
                      /\ \A j \in start + 1 .. i : Wire[j].k = "data"
    IN  IF \E i \in 1 .. Len(Wire) : at(i)
        THEN Concat([i \in 1 .. Cardinality({ j \in 1 .. Len(Wire) : inPlane(j) })
                       |-> Wire[start + i].bytes])
        ELSE <<>>

\* C20: for the panel's geometry, Clear writes the new-data plane that
\* DisplayImage writes for an image with no black pixel: the bytes Clear
\* sends after 0x13, concatenated over its H scanlines, are the buffer that
\* DisplayImage sends after 0x13 for such an image, and what either sends
\* after 0x10 has the same total length.
C20_ClearIsBlankImage ==
    LET white == [pix |-> [p \in PanelPixels |-> 0], outside |-> 0]
        blank == getBuffer(epd, white, 199).buffer
    IN  /\ Returned("Clear") =>
              /\ PlaneAfter(19) = blank
              /\ Len(PlaneAfter(16)) = Len(blank)
        /\ ( /\ Returned("DisplayImage")
             /\ \A p \in PanelPixels : arg.image.pix[p] < 199 ) =>
              /\ PlaneAfter(19) = blank
              /\ Len(PlaneAfter(16)) = Len(blank)

\* a Clear call has returned after sending a new-data plane of more than one
\* scanline of more than one byte
C20_Witness ==
    /\ Returned("Clear")
    /\ gpioOpen
    /\ Len(PlaneAfter(19)) >= 4

====
